---- MODULE Spec2Model ----
(***************************************************************************)
(* Jarvis voice assistant (src/code.ino): the push-to-talk control loop,   *)
(* the WAV recorder, the transcription and dialogue clients and the        *)
(* display formatter; then writeWavHeader, minimizeForDisplay, the upload  *)
(* of deepgramTranscribe and the timed capture loop, each run alone.       *)
(*                                                                         *)
(* Text is a sequence of one-character strings; a byte is a number in      *)
(* 0..255; a file is a sequence of bytes.                                  *)
(***************************************************************************)
EXTENDS Integers, Sequences, FiniteSets, TLC

VARIABLES
  pc,             \* position of loop() and of the function it is in
  button,         \* level of BUTTON_PIN: "LOW" is pressed, "HIGH" is released
  line1,          \* first argument of the last showStatus
  line2,          \* the reply shown under "Jarvis:" (fixed detail texts are not kept)
  fileExists,     \* whether RECORDING_FILE is on the card
  fileBytes,      \* the bytes of RECORDING_FILE
  fileOpen,       \* whether recordAudioWhileButtonHeld holds its File
  filePos,        \* position of that File
  samplesWritten, \* recordAudioWhileButtonHeld's counter
  mic,            \* the signal the capture of this cycle samples, until the file is sent
  recEnd,         \* how the capture just made ended, until loop() has read its result
  ok,             \* loop()'s ok, what recordAudioWhileButtonHeld returned
  dgCode,         \* deepgramTranscribe: what http.POST returned
  transcript,     \* loop()'s transcript
  reply,          \* loop()'s reply
  dgCalls,        \* calls of deepgramTranscribe since the last press was seen
  chatCalls,      \* requests askOpenAIChat has sent since the last press was seen
  dgBody,         \* deepgramTranscribe: response, what http.getString() returned
  chatCode,       \* askOpenAIChat: code, what https.POST returned
  chatBody,       \* askOpenAIChat: resp, what https.getString() returned
  request,        \* askOpenAIChat: the messages of the request body it sent last
  held,           \* the button has been down ever since the last recording began
  dgPosts,        \* requests deepgramTranscribe has started since the last press was seen
  uploaded,       \* deepgramTranscribe: the bytes read from file and given to the stream
  stale,          \* the capture of this cycle found a recording file on the card
  hdrRate,        \* writeWavHeader alone: sampleRate
  hdrCount,       \* writeWavHeader alone: numSamples
  hdrFile,        \* writeWavHeader alone: the file written
  hdrDone,        \* writeWavHeader alone: whether it has run
  fmtIn,          \* minimizeForDisplay alone: text
  fmtS,           \* minimizeForDisplay alone: s when its length is tested
  fmtOut,         \* minimizeForDisplay alone: the String returned
  fmtDone,        \* minimizeForDisplay alone: whether it has run
  upSize,         \* the upload alone: file.size()
  upPos,          \* the upload alone: position of file, what file.read has consumed
  upLength,       \* the upload alone: the Content-Length header added, a decimal text
  upSent,         \* the upload alone: bytes given to the stream so far
  upPc,           \* the upload alone: position in deepgramTranscribe
  tRate,          \* the timed capture: SAMPLE_RATE
  tHold,          \* the timed capture: microseconds from line 300 to the release
  tBegin,         \* the timed capture: the time of line 300
  clock,          \* the timed capture: the time now
  nextSampleTime, \* the timed capture: the uint32_t of that name
  tSamples,       \* the timed capture: samplesWritten
  tLate,          \* the timed capture: turns of the loop that took an interval or more
  tHeader,        \* the timed capture: the header written at the end
  tPc             \* the timed capture: position in recordAudioWhileButtonHeld

mvars == <<pc, button, line1, line2, fileExists, fileBytes, fileOpen, filePos,
           samplesWritten, mic, recEnd, ok, dgCode, transcript, reply, dgCalls,
           chatCalls, dgBody, chatCode, chatBody, request, held, dgPosts, uploaded,
           stale>>
hvars == <<hdrRate, hdrCount, hdrFile, hdrDone>>
fvars == <<fmtIn, fmtS, fmtOut, fmtDone>>
uvars == <<upSize, upPos, upLength, upSent, upPc>>
tvars == <<tRate, tHold, tBegin, clock, nextSampleTime, tSamples, tLate, tHeader, tPc>>
\* the variables of the functions run alone
svars == <<hvars, fvars, uvars, tvars>>
vars == <<mvars, svars>>

----------------------------------------------------------------------------
(* Bounds of the model.                                                    *)

\* #define SAMPLE_RATE 16000, scaled down so that a capture is tens of samples long
SAMPLE_RATE == 8
\* writeWavHeader alone: every count from 0 to this one is tried
MaxHdrCount == 40
\* minimizeForDisplay alone: an input is at most this many runs of one character
MaxPieces == 3
\* the upload alone: a file is at most this many full buffers and a rest
MaxUpChunks == 3
\* the timed capture: at most this many turns of the loop take an interval or more
MaxLate == 1

----------------------------------------------------------------------------
(* Configuration.                                                          *)

MAX_DURATION_SEC == 10

MAX_SAMPLES == SAMPLE_RATE * MAX_DURATION_SEC

----------------------------------------------------------------------------
(* Files.                                                                  *)

\* File::write that inserts the data at p, moving what follows
FileInsert(bytes, p, data) ==
  SubSeq(bytes, 1, p) \o data \o SubSeq(bytes, p + 1, Len(bytes))

\* File::write(buf, n) at position p: overwrites what is there, extends the
\* file when it runs past the end.
FileWrite(bytes, p, data) ==
  LET last == IF p + Len(data) > Len(bytes) THEN p + Len(data) ELSE Len(bytes)
  IN  [i \in 1..last |->
         IF i > p /\ i <= p + Len(data) THEN data[i - p] ELSE bytes[i]]

\* a file opened for writing with what it held left in place
Kept(bytes) == bytes

\* SD.open(path, FILE_WRITE): the file opened is empty, whatever it held
Truncated(bytes) == <<>>

\* A uint32_t is kept as its two 16-bit halves, so that its arithmetic wraps
\* at 32 bits as the code's does.
U16 == 65536

\* the uint32_t of a number n, 0 <= n < 2^31
ToU32(n) == [hi |-> (n \div U16) % U16, lo |-> n % U16]

\* uint32_t a + b
AddU32(a, b) ==
  LET lo == a.lo + b.lo
  IN  [hi |-> (a.hi + b.hi + (lo \div U16)) % U16, lo |-> lo % U16]

\* the four bytes (uint8_t)(x & 0xff), (x>>8)&0xff, (x>>16)&0xff, (x>>24)&0xff
LE32(x) == << x.lo % 256, x.lo \div 256, x.hi % 256, x.hi \div 256 >>

\* the same four bytes, most significant first
BE32(x) == << x.hi \div 256, x.hi % 256, x.lo \div 256, x.lo % 256 >>

\* the uint32_t a reader of the file finds at byte offset off
U32At(bytes, off) ==
  [hi |-> bytes[off + 3] + 256 * bytes[off + 4], lo |-> bytes[off + 1] + 256 * bytes[off + 2]]

\* writeWavHeader with the total size written most significant byte first
WavHeaderBigEndianSize(sampleRate, numSamples) ==
  LET dataSize  == AddU32(numSamples, numSamples)
      chunkSize == AddU32(ToU32(36), dataSize)
      byteRate  == AddU32(sampleRate, sampleRate)
  IN  <<82, 73, 70, 70>> \o BE32(chunkSize) \o <<87, 65, 86, 69>>
      \o <<102, 109, 116, 32>> \o <<16, 0, 0, 0>> \o <<1, 0>> \o <<1, 0>>
      \o LE32(sampleRate) \o LE32(byteRate) \o <<2, 0>> \o <<16, 0>>
      \o <<100, 97, 116, 97>> \o LE32(dataSize)

\* the 44 bytes writeWavHeader(file, sampleRate, numSamples) builds, both
\* arguments uint32_t: "RIFF", chunkSize, "WAVE", "fmt ", 16, 1, 1,
\* sampleRate, byteRate, 2, 16, "data", numSamples * 2
WavHeader(sampleRate, numSamples) ==
  LET dataSize  == AddU32(numSamples, numSamples)
      chunkSize == AddU32(ToU32(36), dataSize)
      byteRate  == AddU32(sampleRate, sampleRate)
  IN  <<82, 73, 70, 70>> \o LE32(chunkSize) \o <<87, 65, 86, 69>>
      \o <<102, 109, 116, 32>> \o <<16, 0, 0, 0>> \o <<1, 0>> \o <<1, 0>>
      \o LE32(sampleRate) \o LE32(byteRate) \o <<2, 0>> \o <<16, 0>>
      \o <<100, 97, 116, 97>> \o LE32(dataSize)

----------------------------------------------------------------------------
(* Text.                                                                   *)

RECURSIVE ReplaceRun(_, _, _, _, _, _)
\* The loop of String::replace from index i until it is past index stop:
\* left to right, a match is replaced and skipped, so matches do not overlap.
\* Gives the index reached and the text built so far.
ReplaceRun(s, i, stop, find, repl, acc) ==
  IF i > Len(s) \/ i > stop THEN [i |-> i, acc |-> acc]
  ELSE IF i + Len(find) - 1 <= Len(s) /\ SubSeq(s, i, i + Len(find) - 1) = find
       THEN ReplaceRun(s, i + Len(find), stop, find, repl, acc \o repl)
       ELSE ReplaceRun(s, i + 1, stop, find, repl, Append(acc, s[i]))

RECURSIVE ReplaceFrom(_, _, _, _, _)
\* the same loop to the end of s, taken 32 indices at a time
ReplaceFrom(s, i, find, repl, acc) ==
  IF i > Len(s) THEN acc
  ELSE LET r == ReplaceRun(s, i, i + 31, find, repl, acc)
       IN  ReplaceFrom(s, r.i, find, repl, r.acc)

\* s.replace(find, repl)
Replace(s, find, repl) == ReplaceFrom(s, 1, find, repl, <<>>)

\* s.indexOf("  ") >= 0
HasDoubleSpace(s) == \E i \in 1..(Len(s) - 1) : s[i] = " " /\ s[i + 1] = " "

\* one s.replace("  ", " ") in place of the loop
CollapseOnce(s) == Replace(s, <<" ", " ">>, <<" ">>)

RECURSIVE CollapseSpaces(_)
\* while (s.indexOf("  ") >= 0) s.replace("  ", " ");
CollapseSpaces(s) ==
  IF HasDoubleSpace(s)
  THEN CHOOSE r \in { CollapseSpaces(once) : once \in { Replace(s, <<" ", " ">>, <<" ">>) } } : TRUE
  ELSE s

\* minimizeForDisplay without its s.replace("\r", " ")
NormalizedKeepsCR(text) == CollapseSpaces(Replace(text, <<"\n">>, <<" ">>))

\* the text before the length test of minimizeForDisplay
\* (each intermediate String is bound to its value, as s holds it in the code)
Normalized(text) ==
  CHOOSE s \in { CollapseSpaces(noLF) :
                   noLF \in { Replace(noCR, <<"\n">>, <<" ">>) :
                              noCR \in { Replace(text, <<"\r">>, <<" ">>) } } } : TRUE

\* the truncation taking 200 characters before the "..."
TruncateAfter200(s) == IF Len(s) > 200 THEN SubSeq(s, 1, 200) \o <<".", ".", ".">> ELSE s

\* if (s.length() > 200) s = s.substring(0, 197) + "...";
Truncate(s) == IF Len(s) > 200 THEN SubSeq(s, 1, 197) \o <<".", ".", ".">> ELSE s

minimizeForDisplay(text) == Truncate(Normalized(text))

----------------------------------------------------------------------------
(* Replies of the two remote services.                                     *)

\* A JSON member as the code reads it: absent, null, a number or a string s.
JAbsent == [kind |-> "absent", s |-> <<>>]
JNull   == [kind |-> "null", s |-> <<>>]
JNumber == [kind |-> "number", s |-> <<>>]
JString(t) == [kind |-> "string", s |-> t]

\* transcripts the speech service may send
DgTexts == { <<>>, <<"h", "i">> }
JTranscripts == {JAbsent, JNull, JNumber} \cup {JString(t) : t \in DgTexts}

\* What http.getString() may hold: text that is no JSON document (the empty
\* text included), or a document of which the code reads three places.
NotJson == [json |-> FALSE, hasResults |-> FALSE, nested |-> JAbsent, top |-> JAbsent]
DgBodies ==
  {NotJson}
  \cup [json : {TRUE}, hasResults : {TRUE}, nested : JTranscripts, top : JTranscripts]
  \cup [json : {TRUE}, hasResults : {FALSE}, nested : {JAbsent}, top : JTranscripts]

\* What http.POST may return: an HTTPClient error (negative), 0, or the HTTP status.
PostCodes == {-1, 0, 200, 500}

\* No reply is read from a server that was not reached.
DgBodiesFor(code) == IF code < 0 THEN {NotJson} ELSE DgBodies

\* deepgramTranscribe without the fallback of line 423
DgExtractNestedOnly(body) ==
  IF body.json /\ body.hasResults /\ body.nested.kind = "string" THEN body.nested.s ELSE <<>>

\* deepgramTranscribe from deserializeJson on: the String it returns
DgExtract(body) ==
  IF ~body.json THEN <<>>
  ELSE LET isNull == body.nested.kind \in {"absent", "null"}
           \* transcript, the const char* of line 413, is not nullptr
           found  == body.hasResults /\ ~isNull /\ body.nested.kind = "string"
       IN  IF found THEN body.nested.s
           ELSE IF body.top.kind # "absent" THEN body.top.s
           ELSE <<>>

\* replies the dialogue service may send
ChatTexts == { <<>>, <<"o", "k">>, <<"a", "\n", " ", "b">> }
\* resp that is no JSON document (the empty text included)
ChatNotJson == [json |-> FALSE, content |-> JAbsent]
ChatBodies ==
  {ChatNotJson}
  \cup [json : {TRUE}, content : {JAbsent, JNull} \cup {JString(t) : t \in ChatTexts}]
ChatCodes == {-1, 200, 500}
ChatBodiesFor(code) == IF code < 0 THEN {ChatNotJson} ELSE ChatBodies

\* const char* SYSTEM_PROMPT, lines 59-62, cut after its first sentence
SYSTEM_PROMPT ==
  <<"Y", "o", "u", " ", "a", "r", "e", " ", "J", "a", "r", "v", "i", "s", ".">>

\* String fullPrompt = String(SYSTEM_PROMPT) + "\nUser: " + transcript;
FullPrompt(userText) ==
  SYSTEM_PROMPT \o <<"\n", "U", "s", "e", "r", ":", " ">> \o userText

\* the messages array askOpenAIChat(prompt) builds, lines 447-458
Messages(prompt) ==
  << [role |-> "system", content |-> SYSTEM_PROMPT],
     [role |-> "user", content |-> prompt] >>

\* askOpenAIChat without the test of the status
ChatExtractAnyStatus(code, body) ==
  IF body.json /\ body.content.kind = "string" THEN body.content.s ELSE <<>>

\* askOpenAIChat from "if (code == 200)" on: the String it returns
ChatExtract(code, body) ==
  IF code = 200 /\ body.json /\ body.content.kind = "string" THEN body.content.s ELSE <<>>

----------------------------------------------------------------------------
(* The recorder.                                                           *)

\* The signals tried at the microphone: what adc1_get_raw returns (12 bits)
\* for sample number k of a capture.
MicSignals == {"flat", "ramp"}
MicRaw(sig, k) == IF sig = "flat" THEN 2048 ELSE (1365 * (k + 1)) % 4096

\* uint16_t sample = (uint16_t)(raw << 4), as the two bytes file.write is given
SampleBytes(raw) == LET sample == (raw * 16) % 65536 IN << sample % 256, sample \div 256 >>

\* return samplesWritten >= (SAMPLE_RATE/4);
EnoughOrEqual(n) == n >= SAMPLE_RATE \div 4

\* return samplesWritten > (SAMPLE_RATE/4);
Enough(n) == n > SAMPLE_RATE \div 4

----------------------------------------------------------------------------
(* The state after setup().                                                *)

MInit ==
  /\ pc = "Idle"
  /\ button = "HIGH"
  /\ line1 = "Home"
  /\ line2 = <<>>
  /\ fileExists = FALSE
  /\ fileBytes = <<>>
  /\ fileOpen = FALSE
  /\ filePos = 0
  /\ samplesWritten = 0
  /\ mic = "none"
  /\ recEnd = "none"
  /\ ok = FALSE
  /\ dgCode = 0
  /\ transcript = <<>>
  /\ reply = <<>>
  /\ dgCalls = 0
  /\ chatCalls = 0
  /\ dgBody = NotJson
  /\ chatCode = 0
  /\ chatBody = ChatNotJson
  /\ request = <<>>
  /\ held = FALSE
  /\ dgPosts = 0
  /\ uploaded = <<>>
  /\ stale = FALSE

HIdle == hdrRate = ToU32(0) /\ hdrCount = ToU32(0) /\ hdrFile = <<>> /\ hdrDone = FALSE
FIdle == fmtIn = <<>> /\ fmtS = <<>> /\ fmtOut = <<>> /\ fmtDone = FALSE

UIdle == upSize = 0 /\ upPos = 0 /\ upLength = <<>> /\ upSent = 0 /\ upPc = "start"

TIdle ==
  /\ tRate = SAMPLE_RATE
  /\ tHold = 0
  /\ tBegin = [hi |-> 0, lo |-> 0]
  /\ clock = [hi |-> 0, lo |-> 0]
  /\ nextSampleTime = ToU32(0)
  /\ tSamples = 0
  /\ tLate = 0
  /\ tHeader = <<>>
  /\ tPc = "loop"

Init == MInit /\ HIdle /\ FIdle /\ UIdle /\ TIdle

----------------------------------------------------------------------------
(* The control: the user presses and releases the button at any time.      *)

Press ==
  /\ button = "HIGH"
  /\ button' = "LOW"
  /\ UNCHANGED <<pc, line1, line2, fileExists, fileBytes, fileOpen, filePos,
                 samplesWritten, ok, dgCode, transcript, reply, dgCalls, chatCalls, recEnd, mic>>
  /\ UNCHANGED <<dgBody, chatCode, chatBody, request, held>>
  /\ UNCHANGED <<dgPosts, uploaded, stale>>
  /\ UNCHANGED svars

Release ==
  /\ button = "LOW"
  /\ button' = "HIGH"
  /\ UNCHANGED <<pc, line1, line2, fileExists, fileBytes, fileOpen, filePos,
                 samplesWritten, ok, dgCode, transcript, reply, dgCalls, chatCalls, recEnd, mic>>
  /\ held' = FALSE
  /\ UNCHANGED <<dgBody, chatCode, chatBody, request>>
  /\ UNCHANGED <<dgPosts, uploaded, stale>>
  /\ UNCHANGED svars

----------------------------------------------------------------------------
(* loop() and the functions it calls.                                      *)

\* loop(), lines 171-174 and 220: the button is read; pressed, the cycle
\* starts and recordAudioWhileButtonHeld is entered; else delay(50).
LoopPoll ==
  /\ pc = "Idle"
  /\ IF button = "LOW"
     THEN /\ line1' = "Recording..."
          /\ line2' = <<>>
          /\ pc' = "RecBegin"
          /\ ok' = FALSE
          /\ transcript' = <<>>
          /\ reply' = <<>>
          /\ dgCalls' = 0
          /\ chatCalls' = 0
          /\ dgPosts' = 0
          /\ samplesWritten' = 0
          /\ recEnd' = "none"
          /\ request' = <<>>
          /\ held' = TRUE
     ELSE UNCHANGED <<pc, line1, line2, ok, transcript, reply, dgCalls, chatCalls,
                      samplesWritten, recEnd, request, held, dgPosts>>
  /\ UNCHANGED <<button, fileExists, fileBytes, fileOpen, filePos, dgCode, mic>>
  /\ UNCHANGED <<dgBody, chatCode, chatBody, uploaded, stale>>
  /\ UNCHANGED svars

\* recordAudioWhileButtonHeld, lines 283-304: SD.begin and SD.open may fail
\* (return false); FILE_WRITE creates the file or truncates the one there;
\* then the placeholder header.
RecOpen ==
  /\ pc = "RecBegin"
  /\ \E sdReady \in BOOLEAN, opened \in BOOLEAN, sig \in MicSignals :
       IF sdReady /\ opened
       THEN /\ mic' = sig
            /\ stale' = fileExists
            /\ fileExists' = TRUE
            /\ fileBytes' = FileWrite(Truncated(fileBytes), 0,
                                      WavHeader(ToU32(SAMPLE_RATE), ToU32(0)))
            /\ fileOpen' = TRUE
            /\ filePos' = 44
            /\ samplesWritten' = 0
            /\ pc' = "RecLoop"
            /\ UNCHANGED <<ok, recEnd>>
       ELSE /\ ok' = FALSE
            /\ recEnd' = "notOpened"
            /\ pc' = "RecReturned"
            /\ UNCHANGED <<fileExists, fileBytes, fileOpen, filePos, samplesWritten, mic,
                           stale>>
  /\ UNCHANGED <<button, line1, line2, dgCode, transcript, reply, dgCalls, chatCalls>>
  /\ UNCHANGED <<dgBody, chatCode, chatBody, request, held>>
  /\ UNCHANGED <<dgPosts, uploaded>>
  /\ UNCHANGED svars

\* the loop of line 307 without its test of samplesWritten
RecLoopNoCap ==
  /\ pc = "RecLoop"
  /\ IF button = "LOW"
     THEN \E written \in BOOLEAN :
            IF written
            THEN /\ fileBytes' = FileWrite(fileBytes, filePos,
                                           SampleBytes(MicRaw(mic, samplesWritten)))
                 /\ filePos' = filePos + 2
                 /\ samplesWritten' = samplesWritten + 1
                 /\ pc' = "RecLoop"
                 /\ UNCHANGED recEnd
            ELSE /\ pc' = "RecFinalize"
                 /\ recEnd' = "writeFailed"
                 /\ UNCHANGED <<fileBytes, filePos, samplesWritten>>
     ELSE /\ pc' = "RecFinalize"
          /\ recEnd' = (IF button = "LOW" THEN "max" ELSE "released")
          /\ UNCHANGED <<fileBytes, filePos, samplesWritten>>
  /\ UNCHANGED <<button, line1, line2, fileExists, fileOpen, ok, dgCode,
                 transcript, reply, dgCalls, chatCalls, mic>>
  /\ UNCHANGED <<dgBody, chatCode, chatBody, request, held>>
  /\ UNCHANGED <<dgPosts, uploaded, stale>>
  /\ UNCHANGED svars

\* the loop counting the sample whose write failed
RecLoopCountsFailed ==
  /\ pc = "RecLoop"
  /\ IF button = "LOW" /\ samplesWritten < MAX_SAMPLES
     THEN \E written \in BOOLEAN :
            IF written
            THEN /\ fileBytes' = FileWrite(fileBytes, filePos,
                                           SampleBytes(MicRaw(mic, samplesWritten)))
                 /\ filePos' = filePos + 2
                 /\ samplesWritten' = samplesWritten + 1
                 /\ pc' = "RecLoop"
                 /\ UNCHANGED recEnd
            ELSE /\ pc' = "RecFinalize"
                 /\ recEnd' = "writeFailed"
                 /\ samplesWritten' = samplesWritten + 1
                 /\ UNCHANGED <<fileBytes, filePos>>
     ELSE /\ pc' = "RecFinalize"
          /\ recEnd' = (IF button = "LOW" THEN "max" ELSE "released")
          /\ UNCHANGED <<fileBytes, filePos, samplesWritten>>
  /\ UNCHANGED <<button, line1, line2, fileExists, fileOpen, ok, dgCode,
                 transcript, reply, dgCalls, chatCalls, mic>>
  /\ UNCHANGED <<dgBody, chatCode, chatBody, request, held>>
  /\ UNCHANGED <<dgPosts, uploaded, stale>>
  /\ UNCHANGED svars

\* lines 307-323: one test of the while condition and, when it holds, one
\* sample: a write of 2 bytes, which may fail (nothing written, break).
RecLoop ==
  /\ pc = "RecLoop"
  /\ IF button = "LOW" /\ samplesWritten < MAX_SAMPLES
     THEN \E written \in BOOLEAN :
            IF written
            THEN /\ fileBytes' = FileWrite(fileBytes, filePos,
                                           SampleBytes(MicRaw(mic, samplesWritten)))
                 /\ filePos' = filePos + 2
                 /\ samplesWritten' = samplesWritten + 1
                 /\ pc' = "RecLoop"
                 /\ UNCHANGED recEnd
            ELSE /\ pc' = "RecFinalize"
                 /\ recEnd' = "writeFailed"
                 /\ UNCHANGED <<fileBytes, filePos, samplesWritten>>
     ELSE /\ pc' = "RecFinalize"
          /\ recEnd' = (IF button = "LOW" THEN "max" ELSE "released")
          /\ UNCHANGED <<fileBytes, filePos, samplesWritten>>
  /\ UNCHANGED <<button, line1, line2, fileExists, fileOpen, ok, dgCode,
                 transcript, reply, dgCalls, chatCalls, mic>>
  /\ UNCHANGED <<dgBody, chatCode, chatBody, request, held>>
  /\ UNCHANGED <<dgPosts, uploaded, stale>>
  /\ UNCHANGED svars

\* lines 326-332: seek(0), the header again with the count, close, return.
RecFinalize ==
  /\ pc = "RecFinalize"
  /\ fileBytes' = FileWrite(fileBytes, 0, WavHeader(ToU32(SAMPLE_RATE), ToU32(samplesWritten)))
  /\ filePos' = 44
  /\ fileOpen' = FALSE
  /\ ok' = Enough(samplesWritten)
  /\ pc' = "RecReturned"
  /\ UNCHANGED <<button, line1, line2, fileExists, samplesWritten, dgCode,
                 transcript, reply, dgCalls, chatCalls, recEnd, mic>>
  /\ UNCHANGED <<dgBody, chatCode, chatBody, request, held>>
  /\ UNCHANGED <<dgPosts, uploaded, stale>>
  /\ UNCHANGED svars

\* loop() without the test of line 175: deepgramTranscribe is called whatever
\* the capture returned
RecReturnedIgnoresFailure ==
  /\ pc = "RecReturned"
  /\ recEnd' = "none"
  /\ line1' = "Processing..."
  /\ pc' = "DgBegin"
  /\ dgCalls' = dgCalls + 1
  /\ UNCHANGED <<button, line2, fileExists, fileBytes, fileOpen, filePos, samplesWritten,
                 ok, dgCode, transcript, reply, chatCalls, mic>>
  /\ UNCHANGED <<dgBody, chatCode, chatBody, request, held>>
  /\ UNCHANGED <<dgPosts, uploaded, stale>>
  /\ UNCHANGED svars

\* loop(), lines 175-186: the failure notice, or "Processing..." and the
\* call of deepgramTranscribe.
RecReturned ==
  /\ pc = "RecReturned"
  /\ recEnd' = "none"
  /\ IF ~ok
     THEN /\ line1' = "Recording failed"
          /\ pc' = "RecFailPause"
          /\ mic' = "none"
          /\ stale' = FALSE
          /\ UNCHANGED dgCalls
     ELSE /\ line1' = "Processing..."
          /\ pc' = "DgBegin"
          /\ dgCalls' = dgCalls + 1
          /\ UNCHANGED <<mic, stale>>
  /\ UNCHANGED <<button, line2, fileExists, fileBytes, fileOpen, filePos, samplesWritten,
                 ok, dgCode, transcript, reply, chatCalls>>
  /\ UNCHANGED <<dgBody, chatCode, chatBody, request, held>>
  /\ UNCHANGED <<dgPosts, uploaded>>
  /\ UNCHANGED svars

\* loop(), lines 178-179: delay(1500); return; loop() is entered again.
RecFailPause ==
  /\ pc = "RecFailPause"
  /\ pc' = "Idle"
  /\ UNCHANGED <<button, line1, line2, fileExists, fileBytes, fileOpen, filePos,
                 samplesWritten, ok, dgCode, transcript, reply, dgCalls, chatCalls, recEnd, mic>>
  /\ UNCHANGED <<dgBody, chatCode, chatBody, request, held>>
  /\ UNCHANGED <<dgPosts, uploaded, stale>>
  /\ UNCHANGED svars

\* deepgramTranscribe, lines 342-351: the file is looked up and opened for
\* reading; either may fail (return "").
DgBegin ==
  /\ pc = "DgBegin"
  /\ \E opened \in BOOLEAN :
       IF fileExists /\ opened
       THEN /\ pc' = "DgPost"
            /\ UNCHANGED transcript
       ELSE /\ pc' = "Transcribed"
            /\ transcript' = <<>>
  /\ UNCHANGED <<button, line1, line2, fileExists, fileBytes, fileOpen, filePos,
                 samplesWritten, ok, dgCode, reply, dgCalls, chatCalls, recEnd, mic>>
  /\ UNCHANGED <<dgBody, chatCode, chatBody, request, held>>
  /\ UNCHANGED <<dgPosts, uploaded, stale>>
  /\ UNCHANGED svars

\* lines 353-384: the request is started; http.POST returning 0 ends the call.
DgPost ==
  /\ pc = "DgPost"
  /\ \E code \in PostCodes :
       /\ dgCode' = code
       /\ IF code = 0
          THEN /\ pc' = "Transcribed"
               /\ transcript' = <<>>
          ELSE /\ pc' = "DgStream"
               /\ UNCHANGED transcript
  /\ UNCHANGED <<button, line1, line2, fileExists, fileBytes, fileOpen, filePos,
                 samplesWritten, ok, reply, dgCalls, chatCalls, recEnd, mic>>
  /\ UNCHANGED <<dgBody, chatCode, chatBody, request, held>>
  /\ dgPosts' = dgPosts + 1
  /\ UNCHANGED <<uploaded, stale>>
  /\ UNCHANGED svars

\* lines 386-397: the part header, the file in chunks, the closing boundary.
DgStream ==
  /\ pc = "DgStream"
  /\ pc' = "DgResponse"
  /\ uploaded' = fileBytes
  /\ UNCHANGED <<button, line1, line2, fileExists, fileBytes, fileOpen, filePos,
                 samplesWritten, mic, recEnd, ok, dgCode, transcript, reply, dgCalls,
                 chatCalls>>
  /\ UNCHANGED <<dgBody, chatCode, chatBody, request, held, dgPosts, stale>>
  /\ UNCHANGED svars

\* lines 399-426 and 186: the response is read and parsed, the transcript
\* returned.
DgResponse ==
  /\ pc = "DgResponse"
  /\ \E body \in DgBodiesFor(dgCode) :
       /\ dgBody' = body
       /\ transcript' = DgExtract(body)
  /\ pc' = "Transcribed"
  /\ UNCHANGED <<button, line1, line2, fileExists, fileBytes, fileOpen, filePos,
                 samplesWritten, mic, recEnd, ok, dgCode, reply, dgCalls, chatCalls>>
  /\ UNCHANGED <<chatCode, chatBody, request, held>>
  /\ UNCHANGED <<dgPosts, uploaded, stale>>
  /\ UNCHANGED svars

\* loop(), lines 189-195 with the test left out: askOpenAIChat is called
\* whatever the transcript
TranscribedAlwaysAsks ==
  /\ pc = "Transcribed"
  /\ pc' = "Responding"
  /\ dgCode' = 0
  /\ dgBody' = NotJson
  /\ uploaded' = <<>>
  /\ mic' = "none"
  /\ stale' = FALSE
  /\ UNCHANGED <<button, line1, line2, fileExists, fileBytes, fileOpen, filePos,
                 samplesWritten, ok, transcript, reply, dgCalls, chatCalls, recEnd>>
  /\ UNCHANGED <<chatCode, chatBody, request, held, dgPosts>>
  /\ UNCHANGED svars

\* loop(), lines 189-195: an empty transcript is the "No transcript" notice;
\* otherwise askOpenAIChat is called.
Transcribed ==
  /\ pc = "Transcribed"
  /\ IF Len(transcript) = 0
     THEN /\ line1' = "No transcript"
          /\ pc' = "NoTranscriptPause"
     ELSE /\ pc' = "Responding"
          /\ UNCHANGED line1
  /\ dgCode' = 0
  /\ dgBody' = NotJson
  /\ uploaded' = <<>>
  /\ mic' = "none"
  /\ stale' = FALSE
  /\ UNCHANGED <<button, line2, fileExists, fileBytes, fileOpen, filePos,
                 samplesWritten, ok, transcript, reply, dgCalls, chatCalls, recEnd>>
  /\ UNCHANGED <<chatCode, chatBody, request, held, dgPosts>>
  /\ UNCHANGED svars

\* askOpenAIChat, lines 433-482: one request; the reply is what it returns.
AskOpenAIChat ==
  /\ pc = "Responding"
  /\ chatCalls' = chatCalls + 1
  /\ request' = Messages(FullPrompt(transcript))
  /\ \E code \in ChatCodes : \E body \in ChatBodiesFor(code) :
       /\ chatCode' = code
       /\ chatBody' = body
       /\ reply' = ChatExtract(code, body)
  /\ pc' = "Responded"
  /\ UNCHANGED <<button, line1, line2, fileExists, fileBytes, fileOpen, filePos,
                 samplesWritten, ok, dgCode, transcript, dgCalls, recEnd, mic>>
  /\ UNCHANGED <<dgBody, held>>
  /\ UNCHANGED <<dgPosts, uploaded, stale>>
  /\ UNCHANGED svars

\* loop(), lines 199-200: the reply is shortened and shown.
ShowReply ==
  /\ pc = "Responded"
  /\ line1' = "Jarvis:"
  /\ line2' = minimizeForDisplay(reply)
  /\ pc' = "Displaying"
  /\ chatCode' = 0
  /\ chatBody' = ChatNotJson
  /\ UNCHANGED <<button, fileExists, fileBytes, fileOpen, filePos, samplesWritten,
                 ok, dgCode, transcript, reply, dgCalls, chatCalls, recEnd, mic>>
  /\ UNCHANGED <<dgBody, request, held>>
  /\ UNCHANGED <<dgPosts, uploaded, stale>>
  /\ UNCHANGED svars

\* loop(), lines 203-206: delay(5000), then the recording file is removed.
Cleanup ==
  /\ pc = "Displaying"
  /\ fileExists' = FALSE
  /\ fileBytes' = <<>>
  /\ pc' = "Cooldown"
  /\ UNCHANGED <<button, line1, line2, fileOpen, filePos, samplesWritten,
                 ok, dgCode, transcript, reply, dgCalls, chatCalls, recEnd, mic>>
  /\ UNCHANGED <<dgBody, chatCode, chatBody, request, held>>
  /\ UNCHANGED <<dgPosts, uploaded, stale>>
  /\ UNCHANGED svars

\* loop(), lines 191 and 210: delay(1500) of the notice, on to the cooldown.
NoTranscriptPause ==
  /\ pc = "NoTranscriptPause"
  /\ pc' = "Cooldown"
  /\ UNCHANGED <<button, line1, line2, fileExists, fileBytes, fileOpen, filePos,
                 samplesWritten, ok, dgCode, transcript, reply, dgCalls, chatCalls, recEnd, mic>>
  /\ UNCHANGED <<dgBody, chatCode, chatBody, request, held>>
  /\ UNCHANGED <<dgPosts, uploaded, stale>>
  /\ UNCHANGED svars

\* loop(), line 210: delay(400).
Cooldown ==
  /\ pc = "Cooldown"
  /\ pc' = "WaitRelease"
  /\ UNCHANGED <<button, line1, line2, fileExists, fileBytes, fileOpen, filePos,
                 samplesWritten, ok, dgCode, transcript, reply, dgCalls, chatCalls, recEnd, mic>>
  /\ UNCHANGED <<dgBody, chatCode, chatBody, request, held>>
  /\ UNCHANGED <<dgPosts, uploaded, stale>>
  /\ UNCHANGED svars

\* loop(), line 213, one test: pressed, delay(50) and the test again.
WaitReleasePoll ==
  /\ pc = "WaitRelease"
  /\ button = "LOW"
  /\ UNCHANGED mvars
  /\ UNCHANGED svars

\* the wait of line 213 never left
WaitReleaseStuck ==
  /\ pc = "WaitRelease"
  /\ button = "HIGH"
  /\ UNCHANGED mvars
  /\ UNCHANGED svars

\* the cooldown left without the wait of line 213
WaitReleaseSkipped ==
  /\ pc = "WaitRelease"
  /\ line1' = "Ready"
  /\ line2' = <<>>
  /\ pc' = "Idle"
  /\ UNCHANGED <<button, fileExists, fileBytes, fileOpen, filePos, samplesWritten,
                 ok, dgCode, transcript, reply, dgCalls, chatCalls, recEnd, mic>>
  /\ UNCHANGED <<dgBody, chatCode, chatBody, request, held>>
  /\ UNCHANGED <<dgPosts, uploaded, stale>>
  /\ UNCHANGED svars

\* loop(), lines 213-220: not pressed, "Ready" is shown and loop() returns.
WaitReleaseDone ==
  /\ pc = "WaitRelease"
  /\ button = "HIGH"
  /\ line1' = "Ready"
  /\ line2' = <<>>
  /\ pc' = "Idle"
  /\ UNCHANGED <<button, fileExists, fileBytes, fileOpen, filePos, samplesWritten,
                 ok, dgCode, transcript, reply, dgCalls, chatCalls, recEnd, mic>>
  /\ UNCHANGED <<dgBody, chatCode, chatBody, request, held>>
  /\ UNCHANGED <<dgPosts, uploaded, stale>>
  /\ UNCHANGED svars

\* a step of the program
Step ==
  \/ LoopPoll \/ RecOpen \/ RecLoop \/ RecFinalize \/ RecReturned \/ RecFailPause
  \/ DgBegin \/ DgPost \/ DgStream \/ DgResponse \/ Transcribed \/ AskOpenAIChat
  \/ ShowReply \/ Cleanup \/ NoTranscriptPause \/ Cooldown
  \/ WaitReleasePoll \/ WaitReleaseDone

Next ==
  \/ Press
  \/ Release
  \/ LoopPoll
  \/ RecOpen
  \/ RecLoop
  \/ RecFinalize
  \/ RecReturned
  \/ RecFailPause
  \/ DgBegin
  \/ DgPost
  \/ DgStream
  \/ DgResponse
  \/ Transcribed
  \/ AskOpenAIChat
  \/ ShowReply
  \/ Cleanup
  \/ NoTranscriptPause
  \/ Cooldown
  \/ WaitReleasePoll
  \/ WaitReleaseDone

Spec == Init /\ [][Next]_vars

\* The program always takes its next step; the user lets go of the button,
\* and the wait of line 213 polls it while it is released.
LiveSpec ==
  /\ Init
  /\ [][Next]_vars
  /\ WF_vars(Step)
  /\ WF_vars(Release)
  /\ SF_vars(WaitReleaseDone)

----------------------------------------------------------------------------
(* writeWavHeader alone, on an empty file, for the rates and counts below. *)

HdrRates == {ToU32(r) : r \in {SAMPLE_RATE, 8000, 16000, 44100}}

\* counts from 0 up, counts around the byte boundaries of the size fields,
\* MAX_SAMPLES of the source (160000) and the largest count whose total
\* size is a uint32_t (2^31 - 19)
HdrCounts ==
  {ToU32(n) : n \in (0..MaxHdrCount) \cup {109, 110, 127, 128, 4000, 4001, 32749, 32750,
                                          32767, 32768, 65535, 65536, 160000,
                                          8388589, 8388590, 2147483629}}

HdrInit ==
  /\ hdrRate \in HdrRates
  /\ hdrCount \in HdrCounts
  /\ hdrFile = <<>>
  /\ hdrDone = FALSE

\* writeWavHeader(file, sampleRate, numSamples), lines 495-529
WriteWavHeader ==
  /\ ~hdrDone
  /\ hdrFile' = FileWrite(hdrFile, 0, WavHeader(hdrRate, hdrCount))
  /\ hdrDone' = TRUE
  /\ UNCHANGED <<hdrRate, hdrCount, mvars, fvars, uvars, tvars>>

HdrNext == WriteWavHeader

HdrSpecInit == MInit /\ HdrInit /\ FIdle /\ UIdle /\ TIdle

SpecHdr == HdrSpecInit /\ [][HdrNext]_vars

----------------------------------------------------------------------------
(* minimizeForDisplay alone, for the texts below.                          *)

Rep(c, n) == [i \in 1..n |-> c]

\* runs of one character: of letters, of spaces, a line feed, a carriage return
FmtPieces ==
  {Rep("a", n) : n \in {1, 48, 196, 200}}
  \cup {Rep(" ", n) : n \in {1, 2, 200}}
  \cup { <<"\n">>, <<"\r">> }

RECURSIVE FmtTexts(_)
\* the texts made of at most k pieces
FmtTexts(k) ==
  IF k = 0 THEN { <<>> }
  ELSE LET T == FmtTexts(k - 1) IN T \cup {t \o p : t \in T, p \in FmtPieces}

FmtInit ==
  /\ fmtIn \in FmtTexts(MaxPieces)
  /\ fmtS = <<>>
  /\ fmtOut = <<>>
  /\ fmtDone = FALSE

\* String mini = minimizeForDisplay(reply), lines 199 and 541-551
MinimizeForDisplay ==
  /\ ~fmtDone
  /\ fmtS' = Normalized(fmtIn)
  /\ fmtOut' = minimizeForDisplay(fmtIn)
  /\ fmtDone' = TRUE
  /\ UNCHANGED <<fmtIn, mvars, hvars, uvars, tvars>>

FmtNext == MinimizeForDisplay

FmtSpecInit == MInit /\ HIdle /\ FmtInit /\ UIdle /\ TIdle

SpecFmt == FmtSpecInit /\ [][FmtNext]_vars

----------------------------------------------------------------------------
(* The upload of deepgramTranscribe (lines 363-397) alone, for the file    *)
(* sizes below.  The stream is kept as the number of bytes it was given.   *)

\* String boundary = "----DeepGramboundary";
boundary ==
  <<"-", "-", "-", "-", "D", "e", "e", "p", "G", "r", "a", "m", "B", "o",
     "u", "n", "d", "a", "r", "y" >>

\* String head, lines 368-370
head ==
  <<"-", "-">> \o boundary \o
  <<"\r", "\n", "C", "o", "n", "t", "e", "n", "t", "-", "D", "i", "s", "p",
     "o", "s", "i", "t", "i", "o", "n", ":", " ", "f", "o", "r", "m", "-",
     "d", "a", "t", "a", ";", " ", "n", "a", "m", "e", "=", "\"", "f", "i",
     "l", "e", "\"", ";", " ", "f", "i", "l", "e", "n", "a", "m", "e", "=",
     "\"", "a", "u", "d", "i", "o", ".", "w", "a", "v", "\"", "\r", "\n",
     "C", "o", "n", "t", "e", "n", "t", "-", "T", "y", "p", "e", ":", " ",
     "a", "u", "d", "i", "o", "/", "w", "a", "v", "\r", "\n", "\r", "\n" >>

\* String tail = "\r\n--" + boundary + "--\r\n";
tail == <<"\r", "\n", "-", "-">> \o boundary \o <<"-", "-", "\r", "\n">>

Digits == <<"0", "1", "2", "3", "4", "5", "6", "7", "8", "9">>

RECURSIVE Decimal(_)
\* String(n) of an int n >= 0
Decimal(n) ==
  IF n < 10 THEN <<Digits[n + 1]>> ELSE Append(Decimal(n \div 10), Digits[(n % 10) + 1])

\* sizeof(buf), uint8_t buf[512]
BufSize == 512

\* file.available()
Available == upSize - upPos

\* what file.read(buf, sizeof(buf)) returns
ReadCount == IF Available < BufSize THEN Available ELSE BufSize

\* files of 0 to MaxUpChunks full buffers and a rest, and the file of a
\* capture of MAX_SAMPLES samples at 16000 Hz (44 + 2 * 160000 bytes)
UpSizes ==
  {k * BufSize + d : k \in 0..MaxUpChunks, d \in {0, 1, 44, 511}} \cup {320044}

UpInit ==
  /\ upSize \in UpSizes
  /\ upPos = 0
  /\ upLength = <<>>
  /\ upSent = 0
  /\ upPc = "start"

\* the Content-Length without the closing boundary
UpDeclareWithoutTail ==
  /\ upPc = "start"
  /\ upLength' = Decimal(Len(head) + upSize)
  /\ upPc' = "post"
  /\ UNCHANGED <<upSize, upPos, upSent, mvars, hvars, fvars, tvars>>

\* lines 375-376: int contentLength = head.length() + file.size() +
\* tail.length(); http.addHeader("Content-Length", String(contentLength));
UpDeclare ==
  /\ upPc = "start"
  /\ upLength' = Decimal(Len(head) + upSize + Len(tail))
  /\ upPc' = "post"
  /\ UNCHANGED <<upSize, upPos, upSent, mvars, hvars, fvars, tvars>>

\* line 379: http.POST; when it returns 0 the function returns
UpPost ==
  /\ upPc = "post"
  /\ \E code \in PostCodes : upPc' = (IF code = 0 THEN "failed" ELSE "head")
  /\ UNCHANGED <<upSize, upPos, upLength, upSent, mvars, hvars, fvars, tvars>>

\* line 388: stream->print(head)
UpHead ==
  /\ upPc = "head"
  /\ upSent' = upSent + Len(head)
  /\ upPc' = "chunks"
  /\ UNCHANGED <<upSize, upPos, upLength, mvars, hvars, fvars, tvars>>

\* lines 392-395, one turn of the loop: r = file.read(buf, sizeof(buf));
\* stream->write(buf, r)
UpChunk ==
  /\ upPc = "chunks"
  /\ Available > 0
  /\ upPos' = upPos + ReadCount
  /\ upSent' = upSent + ReadCount
  /\ UNCHANGED <<upSize, upLength, upPc, mvars, hvars, fvars, tvars>>

\* lines 392 and 396-397: file.available() is 0, stream->print(tail),
\* file.close()
UpTail ==
  /\ upPc = "chunks"
  /\ Available = 0
  /\ upSent' = upSent + Len(tail)
  /\ upPc' = "done"
  /\ UNCHANGED <<upSize, upPos, upLength, mvars, hvars, fvars, tvars>>

UpNext ==
  \/ UpDeclare
  \/ UpPost
  \/ UpHead
  \/ UpChunk
  \/ UpTail

UpSpecInit == MInit /\ HIdle /\ FIdle /\ UpInit /\ TIdle

SpecUp == UpSpecInit /\ [][UpNext]_vars

----------------------------------------------------------------------------
(* The capture loop of recordAudioWhileButtonHeld (lines 298-332) with its  *)
(* clock, alone.  A time is a number of microseconds since the start of the *)
(* board, kept as hi * 65536 + lo; micros() is that number modulo 2^32.     *)

\* the time n microseconds after t, 0 <= n < 2^31
TimeAdd(t, n) ==
  LET lo == t.lo + (n % U16)
  IN  [hi |-> t.hi + (n \div U16) + (lo \div U16), lo |-> lo % U16]

TimeLess(a, b) == a.hi < b.hi \/ (a.hi = b.hi /\ a.lo < b.lo)

\* micros() at time t: an unsigned long of 32 bits
Micros(t) == [hi |-> t.hi % U16, lo |-> t.lo]

\* a < b of two uint32_t
LessU32(a, b) == a.hi < b.hi \/ (a.hi = b.hi /\ a.lo < b.lo)

\* 1000000 / SAMPLE_RATE, the division of two ints
Interval(rate) == 1000000 \div rate

\* while (micros() < nextSampleTime); entered at time now: the time it is
\* left.  The test that ends it reads the clock up to over microseconds
\* after micros() has reached next; when micros() has wrapped to 0 by
\* then, the loop goes on until micros() reaches next again, 2^32
\* microseconds later.
WaitExit(now, next, over) ==
  IF ~LessU32(Micros(now), next) THEN now
  ELSE LET reached == [hi |-> (now.hi \div U16) * U16 + next.hi, lo |-> next.lo]
           read    == TimeAdd(reached, over)
       IN  IF LessU32(Micros(read), next)
           THEN [hi |-> reached.hi + U16, lo |-> reached.lo]
           ELSE read

\* microseconds between micros() reaching the deadline and the test reading it
Overshoots == {0, 1}

\* microseconds one turn of the loop takes after its wait: short ones, and
\* at the scaled rate one of more than three intervals
Works(rate) ==
  IF rate = SAMPLE_RATE
  THEN {1, Interval(rate) \div 2, Interval(rate) - 2, 3 * Interval(rate) + 1}
  ELSE {1, Interval(rate) - 2}

TimeRates == {SAMPLE_RATE, 16000}

\* how long the button is held after line 300
Holds(rate) == IF rate = SAMPLE_RATE THEN {0, 250000, 1000000, 11000000} ELSE {1000000}

\* the capture begins 1 ms after the start of the board, or 496001 us before
\* micros() wraps (2^32 - 1 - 8000 * 62 us)
TimeStarts == {[hi |-> 0, lo |-> 1000], [hi |-> 65528, lo |-> 28287]}

TimeInit ==
  /\ tRate \in TimeRates
  /\ tHold \in Holds(tRate)
  /\ tBegin \in TimeStarts
  /\ clock = tBegin
  /\ nextSampleTime = Micros(tBegin)
  /\ tSamples = 0
  /\ tLate = 0
  /\ tHeader = <<>>
  /\ tPc = "loop"

\* digitalRead(BUTTON_PIN) == LOW at the time now
ButtonLow == TimeLess(clock, TimeAdd(tBegin, tHold))

\* the loop with the deadline taken from the time the sample was read at
TimedSampleFromNow ==
  /\ tPc = "loop"
  /\ IF ButtonLow /\ tSamples < tRate * MAX_DURATION_SEC
     THEN \E over \in Overshoots, work \in Works(tRate) :
            /\ work >= Interval(tRate) => tLate < MaxLate
            /\ clock' = TimeAdd(WaitExit(clock, nextSampleTime, over), work)
            /\ nextSampleTime' = AddU32(Micros(WaitExit(clock, nextSampleTime, over)),
                                      ToU32(Interval(tRate)))
            /\ tSamples' = tSamples + 1
            /\ tLate' = (IF work >= Interval(tRate) THEN tLate + 1 ELSE tLate)
            /\ UNCHANGED tPc
     ELSE /\ tPc' = "finalize"
          /\ UNCHANGED <<clock, nextSampleTime, tSamples, tLate>>
  /\ UNCHANGED <<tRate, tHold, tBegin, tHeader, mvars, hvars, fvars, uvars>>

\* lines 307-323, one test of the while condition and, when it holds, one
\* sample: the wait for the deadline, nextSampleTime += 1000000 / SAMPLE_RATE,
\* the ADC read and the write, samplesWritten++
TimedSample ==
  /\ tPc = "loop"
  /\ IF ButtonLow /\ tSamples < tRate * MAX_DURATION_SEC
     THEN \E over \in Overshoots, work \in Works(tRate) :
            /\ work >= Interval(tRate) => tLate < MaxLate
            /\ clock' = TimeAdd(WaitExit(clock, nextSampleTime, over), work)
            /\ nextSampleTime' = AddU32(nextSampleTime, ToU32(Interval(tRate)))
            /\ tSamples' = tSamples + 1
            /\ tLate' = (IF work >= Interval(tRate) THEN tLate + 1 ELSE tLate)
            /\ UNCHANGED tPc
     ELSE /\ tPc' = "finalize"
          /\ UNCHANGED <<clock, nextSampleTime, tSamples, tLate>>
  /\ UNCHANGED <<tRate, tHold, tBegin, tHeader, mvars, hvars, fvars, uvars>>

\* lines 326-332: the header with the count
TimedFinalize ==
  /\ tPc = "finalize"
  /\ tHeader' = WavHeader(ToU32(tRate), ToU32(tSamples))
  /\ tPc' = "done"
  /\ UNCHANGED <<tRate, tHold, tBegin, clock, nextSampleTime, tSamples, tLate,
                 mvars, hvars, fvars, uvars>>

TimeNext ==
  \/ TimedSample
  \/ TimedFinalize

TimeSpecInit == MInit /\ HIdle /\ FIdle /\ UIdle /\ TimeInit

SpecTime == TimeSpecInit /\ [][TimeNext]_vars

----------------------------------------------------------------------------
(* Properties.                                                             *)

\* the number 36 + 2 * n of a uint32_t n as 16-bit halves, hi not wrapped:
\* it is a uint32_t when hi < 65536
TotalSizeOf(n) ==
  [hi |-> 2 * n.hi + ((2 * n.lo + 36) \div U16), lo |-> (2 * n.lo + 36) % U16]

\* the number 2 * n likewise
TwiceOf(n) == [hi |-> 2 * n.hi + ((2 * n.lo) \div U16), lo |-> (2 * n.lo) % U16]

\* the uint16_t at byte offset off
U16At(bytes, off) == bytes[off + 1] + 256 * bytes[off + 2]

\* C1: the header writeWavHeader writes is 44 bytes; the little-endian u32 at
\* offset 4 is 36 + 2*sampleCount and the one at offset 40 is 2*sampleCount;
\* the rest is "RIFF", "WAVE", "fmt ", 16, PCM 1, mono 1, sampleRate,
\* sampleRate*2, block align 2, 16 bits, "data".  Checked for every count up
\* to the largest whose total size is a uint32_t.
C1_HeaderLayout ==
  hdrDone =>
    /\ Len(hdrFile) = 44
    /\ U32At(hdrFile, 4) = TotalSizeOf(hdrCount)
    /\ U32At(hdrFile, 40) = TwiceOf(hdrCount)
    /\ SubSeq(hdrFile, 1, 4) = <<82, 73, 70, 70>>
    /\ SubSeq(hdrFile, 9, 16) = <<87, 65, 86, 69, 102, 109, 116, 32>>
    /\ U32At(hdrFile, 16) = ToU32(16)
    /\ U16At(hdrFile, 20) = 1
    /\ U16At(hdrFile, 22) = 1
    /\ U32At(hdrFile, 24) = hdrRate
    /\ U32At(hdrFile, 28) = TwiceOf(hdrRate)
    /\ U16At(hdrFile, 32) = 2
    /\ U16At(hdrFile, 34) = 16
    /\ SubSeq(hdrFile, 37, 40) = <<100, 97, 116, 97>>

\* the header of a full capture of the source's configuration has been written
C1_Witness == hdrDone /\ hdrCount = ToU32(160000) /\ hdrRate = ToU32(16000)

C3_EmptyTranscriptSkipsChat ==
  /\ [](chatCalls > 0 => (Len(transcript) > 0 /\ dgCalls > 0))
  /\ [](pc \in {"Responding", "Responded", "Displaying"} => Len(transcript) > 0)
  /\ [][(pc = "Transcribed" /\ pc' # pc /\ Len(transcript) = 0)
          => (pc' = "NoTranscriptPause" /\ line1' = "No transcript" /\ chatCalls' = 0)]_vars
  /\ [][(pc = "NoTranscriptPause" /\ pc' # pc) => (pc' = "Cooldown" /\ chatCalls' = 0)]_vars

\* deepgramTranscribe was called, gave an empty transcript, the notice is shown
C3_Witness ==
  /\ pc = "NoTranscriptPause"
  /\ dgCalls = 1
  /\ chatCalls = 0
  /\ Len(transcript) = 0
  /\ line1 = "No transcript"

\* C4: from every state of a cycle the machine comes back to Idle, and the
\* program always has a next step (no terminal state).
C4_AlwaysBackToIdle ==
  /\ [](ENABLED Step)
  /\ (pc # "Idle") ~> (pc = "Idle")

\* the wait for the release, the button still pressed, after the notice
C4_Witness == pc = "WaitRelease" /\ button = "LOW" /\ line1 = "No transcript"

\* C5: deepgramTranscribe returns an empty result whenever the service was
\* not reached or answered with a status other than 200.
C5_EmptyUnlessStatus200 ==
  (pc = "Transcribed" /\ dgCode # 200) => Len(transcript) = 0

\* a closed recording file: the header of n samples, then n samples
WellFormed(bytes, n) ==
  /\ Len(bytes) = 44 + 2 * n
  /\ SubSeq(bytes, 1, 44) = WavHeader(ToU32(SAMPLE_RATE), ToU32(n))
  /\ U32At(bytes, 40) = ToU32(2 * n)

\* C6: once recordAudioWhileButtonHeld has opened the file and returned, the
\* file is the 44-byte header of samplesWritten samples followed by exactly
\* 2*samplesWritten bytes of samples; the first header is the same 44 bytes
\* for 0 samples; the second header write changes neither the file's length
\* nor any byte from offset 44 on.
C6_HeaderThenSamples ==
  /\ []((pc = "RecReturned" /\ recEnd # "notOpened")
          => (fileExists /\ ~fileOpen /\ WellFormed(fileBytes, samplesWritten)))
  /\ []((fileExists /\ ~fileOpen) => \E n \in 0..MAX_SAMPLES : WellFormed(fileBytes, n))
  /\ [](pc \in {"RecLoop", "RecFinalize"}
          => /\ Len(fileBytes) = 44 + 2 * samplesWritten
             /\ SubSeq(fileBytes, 1, 44) = WavHeader(ToU32(SAMPLE_RATE), ToU32(0)))
  /\ [][(pc = "RecFinalize" /\ pc' = "RecReturned")
          => /\ Len(fileBytes') = Len(fileBytes)
             /\ \A i \in 45..Len(fileBytes) : fileBytes'[i] = fileBytes[i]]_vars

\* a capture that a failed write ended after some samples has returned
C6_Witness ==
  /\ pc = "RecReturned"
  /\ recEnd = "writeFailed"
  /\ samplesWritten > 0
  /\ Len(fileBytes) = 44 + 2 * samplesWritten

\* C7: at the end of a cycle the recording file has been removed exactly when
\* the cycle succeeded end to end (a transcript and a dialogue reply were
\* obtained); after an empty transcript or a failed dialogue reply it is
\* still on the card, and the capture-failure path removes nothing.
C7_RemovedIffCycleSucceeded ==
  /\ [](pc = "Cooldown" => (~fileExists <=> (Len(transcript) > 0 /\ Len(reply) > 0)))
  /\ [][(pc \in {"RecReturned", "RecFailPause"}) => (fileExists' = fileExists)]_vars

NoNewline(s) == \A i \in 1..Len(s) : s[i] \notin {"\r", "\n"}

EndsWithEllipsis(s) ==
  Len(s) >= 3 /\ SubSeq(s, Len(s) - 2, Len(s)) = <<".", ".", ".">>

\* C8: minimizeForDisplay applied to its own result gives that result.
C8_Idempotent == fmtDone => minimizeForDisplay(fmtOut) = fmtOut

\* a text that was both collapsed and truncated
C8_Witness ==
  /\ fmtDone
  /\ HasDoubleSpace(fmtIn)
  /\ Len(fmtOut) = 200
  /\ EndsWithEllipsis(fmtOut)

\* C9 as claimed: every 250-character text without CR or LF gives exactly
\* 200 characters that end in "..." and hold no two consecutive spaces.
C9_Original ==
  (fmtDone /\ Len(fmtIn) = 250 /\ NoNewline(fmtIn))
    => (Len(fmtOut) = 200 /\ EndsWithEllipsis(fmtOut) /\ ~HasDoubleSpace(fmtOut))

\* C9 amended: a 250-character text without CR or LF that still has more
\* than 200 characters once its runs of spaces are collapsed (fmtS) gives exactly 200
\* characters that end in "..." and hold no two consecutive spaces; one that
\* then has at most 200 characters gives the collapsed text itself.
C9_TruncatedWhenStillLong ==
  (fmtDone /\ Len(fmtIn) = 250 /\ NoNewline(fmtIn))
    => /\ ~HasDoubleSpace(fmtOut)
       /\ Len(fmtS) > 200 => (Len(fmtOut) = 200 /\ EndsWithEllipsis(fmtOut))
       /\ Len(fmtS) <= 200 => fmtOut = fmtS

\* a 250-character text with a run of spaces, still long when collapsed
C9_Witness ==
  /\ fmtDone
  /\ Len(fmtIn) = 250
  /\ NoNewline(fmtIn)
  /\ HasDoubleSpace(fmtIn)
  /\ Len(fmtOut) = 200

\* C10: the result of minimizeForDisplay has at most 200 characters, no CR,
\* no LF and no two consecutive spaces; it is the first 197 characters of the
\* normalized text (fmtS) and "..." when that text has more than 200
\* characters, and the normalized text itself otherwise.
C10_DetailLineBounded ==
  fmtDone =>
    /\ Len(fmtOut) <= 200
    /\ NoNewline(fmtOut)
    /\ ~HasDoubleSpace(fmtOut)
    /\ Len(fmtS) > 200 => fmtOut = SubSeq(fmtS, 1, 197) \o <<".", ".", ".">>
    /\ Len(fmtS) <= 200 => fmtOut = fmtS

\* a text with a line break that is cut at a space
C10_Witness ==
  /\ fmtDone
  /\ ~NoNewline(fmtIn)
  /\ Len(fmtOut) = 200
  /\ fmtOut[197] = " "

\* C11: what deepgramTranscribe returns from a reply it has read: the text at
\* results.channels[0].alternatives[0].transcript when the reply is JSON and
\* holds a string there; else the text of a top-level "transcript" string;
\* else (neither there, or no JSON) the empty String.
C11_TranscriptFromReply ==
  pc = "Transcribed" =>
    transcript = (IF dgBody.json /\ dgBody.nested.kind = "string" THEN dgBody.nested.s
                  ELSE IF dgBody.json /\ dgBody.top.kind = "string" THEN dgBody.top.s
                  ELSE <<>>)

\* a JSON reply without "results" and with a top-level transcript was returned
C11_Witness ==
  /\ pc = "Transcribed"
  /\ dgBody.json
  /\ ~dgBody.hasResults
  /\ dgBody.top = JString(<<"h", "i">>)
  /\ transcript = <<"h", "i">>

\* C12: askOpenAIChat returns choices[0].message.content exactly when the
\* status is 200, the reply is JSON and holds a string there; for any other
\* status, a reply that is no JSON or a missing field it returns the empty
\* String; and an invocation sends one request.
C12_ContentOnlyOnStatus200 ==
  pc = "Responded" =>
    /\ (chatCode = 200 /\ chatBody.json /\ chatBody.content.kind = "string")
         => reply = chatBody.content.s
    /\ (chatCode # 200 \/ ~chatBody.json \/ chatBody.content.kind # "string")
         => reply = <<>>
    /\ chatCalls = 1

\* status 500 with a well-formed reply: nothing is returned
C12_Witness ==
  /\ pc = "Responded"
  /\ chatCode = 500
  /\ chatBody.json
  /\ chatBody.content = JString(<<"o", "k">>)
  /\ reply = <<>>
  /\ chatCalls = 1

\* C13: the request askOpenAIChat has sent holds two messages: the system
\* entry with SYSTEM_PROMPT and the user entry with the transcript of the
\* cycle and nothing else.
C13_UserEntryIsTranscript ==
  pc = "Responded" =>
    /\ Len(request) = 2
    /\ request[1] = [role |-> "system", content |-> SYSTEM_PROMPT]
    /\ request[2] = [role |-> "user", content |-> transcript]

RECURSIVE DecimalValue(_)
\* the number a decimal text denotes
DecimalValue(t) ==
  IF Len(t) = 0 THEN 0
  ELSE 10 * DecimalValue(SubSeq(t, 1, Len(t) - 1))
       + (CHOOSE d \in 0..9 : Digits[d + 1] = t[Len(t)])

\* C14: the Content-Length declared is len(head) + file size + len(tail); it
\* is set before any byte is given to the stream and does not change; when
\* the upload is done the stream was given exactly that many bytes, the whole
\* file among them; each turn of the chunk loop forwards 1 to 512 bytes and
\* moves on in the file, so the loop ends when the file is exhausted.
C14_ContentLengthIsBytesSent ==
  /\ [](upPc # "start" => DecimalValue(upLength) = Len(head) + upSize + Len(tail))
  /\ [](upPc \in {"start", "post", "head", "failed"} => upSent = 0)
  /\ [](upPc = "done" => (upSent = DecimalValue(upLength) /\ upPos = upSize))
  /\ [](upPc = "chunks" => (upSent = Len(head) + upPos /\ upPos <= upSize))
  /\ [][upPc # "start" => upLength' = upLength]_vars
  /\ [][(upPc = "chunks" /\ upPc' = "chunks")
          => (upPos' > upPos /\ upPos' - upPos <= BufSize
              /\ upSent' - upSent = upPos' - upPos)]_vars
  /\ [][(upPc = "chunks" /\ upPos = upSize) => upPc' = "done"]_vars

\* a file of three full buffers and a rest has been sent
C14_Witness ==
  /\ upPc = "done"
  /\ upSize = 3 * BufSize + 44
  /\ upSent = 118 + 1580 + 28
  /\ upLength = <<"1", "7", "2", "6">>

\* C15: the number of samples written never exceeds MAX_SAMPLES, and a
\* capture that has MAX_SAMPLES samples is ended by the next test of the
\* loop, even with the button still pressed: no further sample is written.
C15_NeverMoreThanMaxSamples ==
  /\ [](samplesWritten <= MAX_SAMPLES)
  /\ [][(pc = "RecLoop" /\ samplesWritten = MAX_SAMPLES /\ pc' # pc)
          => (pc' = "RecFinalize" /\ samplesWritten' = samplesWritten
              /\ fileBytes' = fileBytes)]_vars
  /\ [][(pc = "RecLoop" /\ samplesWritten = MAX_SAMPLES)
          => samplesWritten' = samplesWritten]_vars

\* the capture was ended by the cap, the button still pressed
C15_Witness ==
  /\ pc = "RecFinalize"
  /\ recEnd = "max"
  /\ button = "LOW"
  /\ samplesWritten = MAX_SAMPLES

\* C16: a capture at 16000 Hz whose button is held for exactly 1 second, with
\* no failed write and every turn of the loop shorter than one interval, ends
\* with 15000 to 17000 samples, and the header written declares that count.
C16_OneSecondCount ==
  (tPc = "done" /\ tRate = 16000 /\ tHold = 1000000 /\ tLate = 0)
    => /\ tSamples >= 15000
       /\ tSamples <= 17000
       /\ U32At(tHeader, 40) = ToU32(2 * tSamples)

\* C19: after k samples nextSampleTime is micros() of line 300 plus k times
\* 1000000 / SAMPLE_RATE, modulo 2^32, whenever the samples were taken.
C19_DeadlineFromStart ==
  nextSampleTime = AddU32(Micros(tBegin), ToU32(tSamples * Interval(tRate)))

\* a turn of the loop was late, the clock is past the deadline, and samples
\* were taken after it
C19_Witness ==
  /\ tLate = 1
  /\ tSamples >= 5
  /\ TimeLess(TimeAdd(tBegin, tSamples * Interval(tRate)), clock)
  /\ tBegin.hi = 0

\* C17: a sample write that fails ends the loop at once: the failed sample is
\* not counted and no further sample is written; the header is then written
\* again at offset 0 with the count of the samples written before the
\* failure, and the file is closed.
C17_WriteFailureStillFinalizes ==
  /\ [][(recEnd # "writeFailed" /\ recEnd' = "writeFailed")
          => (pc' = "RecFinalize" /\ samplesWritten' = samplesWritten
              /\ fileBytes' = fileBytes)]_vars
  /\ [](recEnd = "writeFailed" => pc \in {"RecFinalize", "RecReturned"})
  /\ [][recEnd = "writeFailed" => samplesWritten' = samplesWritten]_vars
  /\ [][(recEnd = "writeFailed" /\ pc = "RecFinalize" /\ pc' # pc)
          => /\ ~fileOpen'
             /\ SubSeq(fileBytes', 1, 44) = WavHeader(ToU32(SAMPLE_RATE), ToU32(samplesWritten))
             /\ SubSeq(fileBytes', 45, Len(fileBytes'))
                  = SubSeq(fileBytes, 45, Len(fileBytes))]_vars

\* a write failed after five samples with the button still pressed; the
\* header declares the five samples and the file is closed
C17_Witness ==
  /\ pc = "RecReturned"
  /\ recEnd = "writeFailed"
  /\ button = "LOW"
  /\ samplesWritten = 5
  /\ ~fileOpen
  /\ U32At(fileBytes, 40) = ToU32(10)

\* C18: no recording starts from a press that has been held ever since the
\* previous recording began: between two recordings the button is released.
C18_NoRecordingFromHeldPress ==
  [][(pc = "Idle" /\ pc' = "RecBegin") => ~held]_vars

\* C20: the cooldown (delay(400) and the wait of line 213) is left only by a
\* step that finds the button not pressed, shows "Ready" and returns to
\* Idle; while the button is pressed the machine stays in the cooldown, and
\* no recording is in progress during it.
C20_CooldownLeftOnlyWhenReleased ==
  /\ [][(pc \in {"Cooldown", "WaitRelease"} /\ pc' \notin {"Cooldown", "WaitRelease"})
          => (button = "HIGH" /\ button' = "HIGH" /\ pc' = "Idle" /\ line1' = "Ready")]_vars
  /\ [][(pc \in {"Cooldown", "WaitRelease"} /\ button = "LOW")
          => pc' \in {"Cooldown", "WaitRelease"}]_vars
  /\ [](pc \in {"Cooldown", "WaitRelease"} => (~fileOpen /\ mic = "none"))

\* the reply was shown and the button has been held since the recording began
C20_Witness ==
  /\ pc = "WaitRelease"
  /\ button = "LOW"
  /\ held
  /\ line1 = "Jarvis:"

\* C21: in one cycle (from the press seen at line 171 on) deepgramTranscribe
\* is called at most once and starts at most one request, and only when the
\* capture of this cycle returned true; askOpenAIChat sends at most one
\* request, after that call.  When the capture returned false, loop() shows
\* "Recording failed", pauses and is back at the poll of the button with
\* neither service called, and it always gets there.
C21_ServicesOncePerCycle ==
  /\ [](dgCalls <= 1 /\ dgPosts <= dgCalls /\ chatCalls <= dgCalls)
  /\ [](dgCalls > 0 => ok)
  /\ [][dgCalls' > dgCalls => (pc = "RecReturned" /\ ok /\ dgCalls = 0)]_vars
  /\ [][dgPosts' > dgPosts => (pc = "DgPost" /\ ok /\ dgCalls = 1 /\ dgPosts = 0)]_vars
  /\ [][chatCalls' > chatCalls => (pc = "Responding" /\ ok /\ chatCalls = 0)]_vars
  /\ [][(pc = "RecReturned" /\ ~ok /\ pc' # pc)
          => (pc' = "RecFailPause" /\ line1' = "Recording failed")]_vars
  /\ [](pc = "RecFailPause" => (~ok /\ dgCalls = 0 /\ dgPosts = 0 /\ chatCalls = 0))
  /\ [][(pc = "RecFailPause" /\ pc' # pc)
          => (pc' = "Idle" /\ dgCalls' = 0 /\ dgPosts' = 0 /\ chatCalls' = 0)]_vars
  /\ ((pc = "RecReturned" /\ ~ok) ~> (pc = "Idle"))

\* a capture that wrote samples, but too few, has failed and loop() is back
\* at the poll with no service called
C21_Witness ==
  /\ pc = "Idle"
  /\ line1 = "Recording failed"
  /\ fileExists
  /\ Len(fileBytes) > 44
  /\ dgCalls = 0
  /\ dgPosts = 0
  /\ chatCalls = 0

\* the file a capture of n samples of the signal sig leaves: the header of n
\* samples, then each sample as line 315 makes it, low byte first
CapturedFile(sig, n) ==
  [i \in 1..(44 + 2 * n) |->
     IF i <= 44
     THEN WavHeader(ToU32(SAMPLE_RATE), ToU32(n))[i]
     ELSE SampleBytes(MicRaw(sig, (i - 45) \div 2))[((i - 45) % 2) + 1]]

\* C22: whenever deepgramTranscribe runs, the capture of this same cycle has
\* opened the file and returned true, and the file on the card is, byte for
\* byte, the header and the samples that capture wrote; these are the bytes
\* given to the stream.  The file the capture found on the card (left by an
\* earlier cycle) is emptied when it is opened, so none of its bytes is sent.
C22_UploadIsThisCyclesCapture ==
  /\ [](pc \in {"DgBegin", "DgPost", "DgStream", "DgResponse"}
          => /\ ok
             /\ mic \in MicSignals
             /\ fileExists
             /\ ~fileOpen
             /\ fileBytes = CapturedFile(mic, samplesWritten))
  /\ [](pc = "DgResponse" => uploaded = CapturedFile(mic, samplesWritten))
  /\ [][uploaded' # uploaded
          => \/ uploaded' = <<>>
             \/ pc = "DgStream" /\ uploaded' = CapturedFile(mic, samplesWritten)]_vars
  /\ [][(pc = "RecBegin" /\ pc' = "RecLoop") => fileBytes' = CapturedFile(mic', 0)]_vars

\* a file left by an earlier cycle was on the card when this cycle's capture
\* began, and what has been sent is this cycle's short capture of the flat signal
C22_Witness ==
  /\ pc = "DgResponse"
  /\ stale
  /\ mic = "flat"
  /\ samplesWritten = SAMPLE_RATE \div 4 + 1
  /\ uploaded = CapturedFile("flat", samplesWritten)

====
